---- MODULE Spec2Model ----
(***************************************************************************)
(* Stock tracking processor (processors/stock-tracking) and the HTTP       *)
(* handler of backend/server.js that drives it.                            *)
(*                                                                         *)
(* Texts are sequences of one-character strings, so that the template      *)
(* strings, regular expressions, padStart, toLowerCase and startsWith of   *)
(* the code are computed and not assumed.  Fixed messages whose characters *)
(* the code never inspects are written as one multi-character element.     *)
(* A cell value is a tagged tuple: Null, N(number), S(text) or NaN.        *)
(* A worksheet is [name, fresh, rows]; rows[1] is row 1 of the sheet and a *)
(* row is the sequence of its cell values.  fresh is FALSE for everything  *)
(* read from the file and TRUE for a sheet created by the running job.     *)
(***************************************************************************)
EXTENDS Integers, Sequences, FiniteSets

VARIABLES
    pc,                   \* position inside processStockTracking
    disk,                 \* the tracking workbook stored at trackingPath
    trackingWb,           \* the tracking workbook in memory
    exportSheet,          \* exportWb.worksheets[0]
    exportDateStr,        \* the raw date parameter
    exportDateFormatted,  \* the canonical label
    error,                \* the error thrown to the caller, or NoError
    writes,               \* writeFile calls of the current invocation
    steps,                \* steps completed by the current invocation
    exportData,           \* result of extractExportData (pure-function check)
    vr,                   \* calculateVariations / writeVariationsSheet check
    http                  \* the POST /api/process/:treatmentId handler

vars == <<pc, disk, trackingWb, exportSheet, exportDateStr, exportDateFormatted,
          error, writes, steps, exportData, vr, http>>

coreVars == <<pc, disk, trackingWb, exportSheet, exportDateStr,
              exportDateFormatted, error, writes, steps>>

----------------------------------------------------------------------------
(* Values *)

Null == <<"null">>
NaN == <<"nan">>
N(n) == <<"n", n>>
S(s) == <<"s", s>>
IsNum(v) == Len(v) = 2 /\ v[1] = "n"
IsStr(v) == Len(v) = 2 /\ v[1] = "s"

Range(s) == {s[i] : i \in DOMAIN s}

DigitChars == <<"0", "1", "2", "3", "4", "5", "6", "7", "8", "9">>
IsDigit(c) == \E i \in DOMAIN DigitChars : DigitChars[i] = c
DigitVal(c) == (CHOOSE i \in DOMAIN DigitChars : DigitChars[i] = c) - 1

RECURSIVE NumberOf(_)
\* ToNumber of a text of decimal digits.
NumberOf(s) ==
    IF s = <<>> THEN 0
    ELSE 10 * NumberOf(SubSeq(s, 1, Len(s) - 1)) + DigitVal(s[Len(s)])

RECURSIVE StringOfNat(_)
\* String(n) for a natural number.
StringOfNat(n) ==
    IF n < 10 THEN <<DigitChars[n + 1]>>
    ELSE StringOfNat(n \div 10) \o <<DigitChars[(n % 10) + 1]>>

\* String(v) / `${v}` of a cell value.
StringOf(v) ==
    IF IsStr(v) THEN v[2]
    ELSE IF IsNum(v) THEN
        (IF v[2] < 0 THEN <<"-">> \o StringOfNat(-v[2]) ELSE StringOfNat(v[2]))
    ELSE IF v = NaN THEN <<"N", "a", "N">>
    ELSE <<"n", "u", "l", "l">>

\* JavaScript falsiness: !v.
Falsy(v) == v = Null \/ v = NaN \/ v = N(0) \/ v = S(<<>>)

\* a - b on cell values already passed through `|| 0`.
Minus(a, b) == IF IsNum(a) /\ IsNum(b) THEN N(a[2] - b[2]) ELSE NaN

UpperChars == <<"A", "B", "C", "D", "E", "F", "G", "H", "I", "J", "K", "L", "M",
                "N", "O", "P", "Q", "R", "S", "T", "U", "V", "W", "X", "Y", "Z">>
LowerChars == <<"a", "b", "c", "d", "e", "f", "g", "h", "i", "j", "k", "l", "m",
                "n", "o", "p", "q", "r", "s", "t", "u", "v", "w", "x", "y", "z">>
LowerChar(c) ==
    IF \E i \in DOMAIN UpperChars : UpperChars[i] = c
    THEN LowerChars[CHOOSE i \in DOMAIN UpperChars : UpperChars[i] = c]
    ELSE c
toLowerCase(s) == [i \in DOMAIN s |-> LowerChar(s[i])]
startsWith(s, p) == Len(p) <= Len(s) /\ SubSeq(s, 1, Len(p)) = p

\* String.prototype.padStart(2, '0')
padStart2(s) == IF Len(s) >= 2 THEN s ELSE <<"0">> \o s

----------------------------------------------------------------------------
(* Dates: parseDate, formatDate, isValidDate *)

AllDigits(s, from, to) == \A i \in from..to : IsDigit(s[i])

\* /^(\d{4})-(\d{2})-(\d{2})$/
MatchISO(s) ==
    /\ Len(s) = 10
    /\ AllDigits(s, 1, 4) /\ s[5] = "-" /\ AllDigits(s, 6, 7)
    /\ s[8] = "-" /\ AllDigits(s, 9, 10)

\* /^(\d{2})\/(\d{2})\/(\d{4})$/
MatchFR(s) ==
    /\ Len(s) = 10
    /\ AllDigits(s, 1, 2) /\ s[3] = "/" /\ AllDigits(s, 4, 5)
    /\ s[6] = "/" /\ AllDigits(s, 7, 10)

IsLeap(y) == (y % 4 = 0 /\ y % 100 # 0) \/ y % 400 = 0
DaysInMonth(y, m) ==
    IF m = 1 THEN (IF IsLeap(y) THEN 29 ELSE 28)
    ELSE IF m \in {3, 5, 8, 10} THEN 30 ELSE 31

RECURSIVE RollDay(_, _, _)
\* Carries a day of the month outside 1..DaysInMonth into the neighbouring
\* months (month m is 0-based).
RollDay(y, m, d) ==
    IF d < 1 THEN
        LET py == IF m = 0 THEN y - 1 ELSE y
            pm == IF m = 0 THEN 11 ELSE m - 1
        IN RollDay(py, pm, d + DaysInMonth(py, pm))
    ELSE IF d > DaysInMonth(y, m) THEN
        LET ny == IF m = 11 THEN y + 1 ELSE y
            nm == IF m = 11 THEN 0 ELSE m + 1
        IN RollDay(ny, nm, d - DaysInMonth(y, m))
    ELSE [year |-> y, month |-> m, date |-> d]

\* new Date(year, monthIndex, day): years 0..99 mean 1900..1999, a month
\* index outside 0..11 carries into the year, then the day carries.
NewDate(year, monthIndex, day) ==
    LET y0 == IF year \in 0..99 THEN 1900 + year ELSE year
        y == y0 + (monthIndex \div 12)
        m == monthIndex % 12
    IN RollDay(y, m, day)

ParseError == [year |-> -1, month |-> -1, date |-> -1]

parseDate(dateStr) ==
    IF MatchISO(dateStr) THEN
        NewDate(NumberOf(SubSeq(dateStr, 1, 4)),
                NumberOf(SubSeq(dateStr, 6, 7)) - 1,
                NumberOf(SubSeq(dateStr, 9, 10)))
    ELSE IF MatchFR(dateStr) THEN
        NewDate(NumberOf(SubSeq(dateStr, 7, 10)),
                NumberOf(SubSeq(dateStr, 4, 5)) - 1,
                NumberOf(SubSeq(dateStr, 1, 2)))
    ELSE ParseError

\* formatDate(date, 'DD/MM/YYYY')
formatDate(date) ==
    padStart2(StringOfNat(date.date)) \o <<"/">>
        \o padStart2(StringOfNat(date.month + 1)) \o <<"/">>
        \o StringOfNat(date.year)

\* isValidDate(cell value): parseDate does not throw.  A value that is not a
\* text has no match method; the TypeError is caught as well.
isValidDate(v) == IsStr(v) /\ parseDate(v[2]) # ParseError

----------------------------------------------------------------------------
(* Worksheets *)

\* getCellValue(row, colIndex): an absent cell reads null.
getCellValue(row, colIndex) ==
    IF colIndex \in DOMAIN row THEN row[colIndex] ELSE Null

\* row.getCell(colIndex).value = v: cells up to colIndex come to exist.
SetCell(row, colIndex, v) ==
    [i \in 1..(IF colIndex > Len(row) THEN colIndex ELSE Len(row)) |->
        IF i = colIndex THEN v ELSE getCellValue(row, i)]

\* Row.eachCell visits the cells that hold a value, in column order.
NonEmptyCols(row) == {i \in DOMAIN row : row[i] # Null}

\* getHeaders(sheet): the values of the non-empty cells of row 1.
getHeaders(sheet) ==
    IF sheet.rows = <<>> THEN <<>>
    ELSE SelectSeq(sheet.rows[1], LAMBDA v : v # Null)

\* Array.prototype.indexOf, 0-based, -1 when absent.
indexOf(arr, v) ==
    IF \E i \in DOMAIN arr : arr[i] = v
    THEN (CHOOSE i \in DOMAIN arr : arr[i] = v /\ \A j \in 1..(i - 1) : arr[j] # v) - 1
    ELSE -1

----------------------------------------------------------------------------
(* extractExportData *)

\* `${codeArticle}|${emplacement}`
KeyOf(a, b) == StringOf(a) \o <<"|">> \o StringOf(b)

MapHas(data, key) == \E i \in DOMAIN data : data[i].key = key
MapIndex(data, key) == CHOOSE i \in DOMAIN data : data[i].key = key

NewEntry(key, codeArticle, emplacement, description, descEmplacement) ==
    [key |-> key,
     codeArticle |-> codeArticle,
     emplacement |-> emplacement,
     description |-> IF Falsy(description) THEN S(<<>>) ELSE description,
     descEmplacement |-> IF Falsy(descEmplacement) THEN S(<<>>) ELSE descEmplacement,
     quantite |-> 0]

\* One iteration of the eachRow callback of extractExportData on row rowNum.
ExtractRow(data, row, rowNum) ==
    LET codeArticle == getCellValue(row, 1)
        emplacement == getCellValue(row, 2)
        description == getCellValue(row, 3)
        descEmplacement == getCellValue(row, 4)
        key == KeyOf(codeArticle, emplacement)
        withKey == IF MapHas(data, key) THEN data
                   ELSE Append(data, NewEntry(key, codeArticle, emplacement,
                                              description, descEmplacement))
        k == MapIndex(withKey, key)
    IN IF rowNum = 1 THEN data
       ELSE IF Falsy(codeArticle) \/ Falsy(emplacement) THEN data
       ELSE [withKey EXCEPT ![k].quantite = @ + 1]

RECURSIVE ExtractFrom(_, _, _)
ExtractFrom(rows, rowNum, data) ==
    IF rowNum > Len(rows) THEN data
    ELSE ExtractFrom(rows, rowNum + 1, ExtractRow(data, rows[rowNum], rowNum))

\* The Map returned by extractExportData, as its entries in insertion order.
extractExportData(sheet) == ExtractFrom(sheet.rows, 1, <<>>)

----------------------------------------------------------------------------
(* calculateVariations, writeVariationsSheet, addNoDataMessage *)

\* `getCellValue(row, col) || 0`
OrZero(v) == IF Falsy(v) THEN N(0) ELSE v

\* Faulty variant of KeepsVariation: every row yields a record.
KeepsEveryVariation(variation) == TRUE

\* The filter of calculateVariations: `variation !== 0`.
KeepsVariation(variation) == variation # N(0)

\* currentQty - previousQty
VariationOf(currentQty, previousQty) == Minus(currentQty, previousQty)

RECURSIVE VariationsFrom(_, _, _, _)
VariationsFrom(rows, rowNum, currentColIndex, previousColIndex) ==
    IF rowNum > Len(rows) THEN <<>>
    ELSE
        LET row == rows[rowNum]
            currentQty == OrZero(getCellValue(row, currentColIndex))
            previousQty == OrZero(getCellValue(row, previousColIndex))
            variation == VariationOf(currentQty, previousQty)
            rest == VariationsFrom(rows, rowNum + 1, currentColIndex, previousColIndex)
        IN IF rowNum # 1 /\ KeepsVariation(variation)
           THEN <<[codif |-> getCellValue(row, 1),
                   designation |-> getCellValue(row, 2),
                   magasin |-> getCellValue(row, 3),
                   description |-> getCellValue(row, 4),
                   variation |-> variation,
                   qtyActuelle |-> currentQty]>> \o rest
           ELSE rest

calculateVariations(stockSheet, currentColIndex, previousColIndex) ==
    VariationsFrom(stockSheet.rows, 1, currentColIndex, previousColIndex)

ReportHeaders ==
    <<S(<<"Codification DSNA">>), S(<<"Désignation">>), S(<<"Magasin">>),
      S(<<"Description">>), S(<<"Variation">>), S(<<"Quantité actuelle">>)>>

NoVariationMessage == <<"Aucune variation pour cette période">>

\* Row i + 3 of a variation report.
VariationRow(item) ==
    <<item.codif, item.designation, item.magasin, item.description,
      item.variation, item.qtyActuelle>>

\* writeVariationsSheet: title in the merged cell A1, the headers in row 2,
\* then one row per record, or the merged message in A3.  Fills, fonts and
\* column widths are not kept.
writeVariationsSheet(sheet, variations, title, headers) ==
    [sheet EXCEPT !.rows =
        <<<<S(title)>>, headers>> \o
        (IF Len(variations) > 0
         THEN [i \in 1..Len(variations) |-> VariationRow(variations[i])]
         ELSE <<<<S(NoVariationMessage)>>>>)]

\* addNoDataMessage: the message in the merged cell A1, nothing else.
addNoDataMessage(sheet, message) ==
    [sheet EXCEPT !.rows = <<<<S(message)>>>>]

----------------------------------------------------------------------------
(* Workbook: a sequence of worksheets *)

StockSheetName == <<"L", "i", "s", "t", "e", " ", "d", "e", " ", "S", "t", "o", "c", "k">>
MonthlyName == <<"S", "u", "i", "v", "i", " ", "M", "e", "n", "s", "u", "e", "l">>
SemestrialName ==
    <<"S", "u", "i", "v", "i", " ", "S", "e", "m", "e", "s", "t", "r", "i", "e", "l">>
MonthlyPrefix == <<"s", "u", "i", "v", "i", " ", "m", "e", "n", "s", "u", "e", "l">>
SemestrialPrefix ==
    <<"s", "u", "i", "v", "i", " ", "s", "e", "m", "e", "s", "t", "r", "i", "e", "l">>

\* workbook.getWorksheet(name): position of the sheet of that name, 0 if none.
getWorksheet(wb, name) ==
    IF \E i \in DOMAIN wb : wb[i].name = name
    THEN CHOOSE i \in DOMAIN wb :
            wb[i].name = name /\ \A j \in 1..(i - 1) : wb[j].name # name
    ELSE 0

\* The predicate of findSheetByPrefix.
NameHasPrefix(name, prefix) == startsWith(toLowerCase(name), toLowerCase(prefix))

\* findSheetByPrefix: position of the first sheet whose lower-cased name
\* starts with the lower-cased prefix, 0 if none (Array.prototype.find).
findSheetByPrefix(wb, prefix) ==
    IF \E i \in DOMAIN wb : NameHasPrefix(wb[i].name, prefix)
    THEN CHOOSE i \in DOMAIN wb :
            /\ NameHasPrefix(wb[i].name, prefix)
            /\ \A j \in 1..(i - 1) : ~NameHasPrefix(wb[j].name, prefix)
    ELSE 0

\* workbook.removeWorksheet(sheet.id)
removeWorksheet(wb, i) == [j \in 1..(Len(wb) - 1) |-> IF j < i THEN wb[j] ELSE wb[j + 1]]

NameTaken(wb, name) ==
    \E i \in DOMAIN wb : toLowerCase(wb[i].name) = toLowerCase(name)

NameExistsError(name) ==
    <<"Error", <<"Worksheet name already exists: ">> \o name>>

\* workbook.addWorksheet(name): the new empty sheet goes last.  When a sheet
\* of that name is already there, the spreadsheet library either refuses
\* (recent releases throw) or adds a second sheet of the same name (older
\* releases); the repository does not pin the release, so both are outcomes.
addWorksheet(wb, name) ==
    LET added == [ok |-> TRUE, error |-> <<"none">>,
                  wb |-> Append(wb, [name |-> name, fresh |-> TRUE, rows |-> <<>>])]
    IN IF NameTaken(wb, name)
       THEN {added, [ok |-> FALSE, error |-> NameExistsError(name), wb |-> wb]}
       ELSE {added}

----------------------------------------------------------------------------
(* updateTracking *)

NoError == <<"none">>
Ok(wb) == [ok |-> TRUE, error |-> NoError, wb |-> wb]
Throw(err, wb) == [ok |-> FALSE, error |-> err, wb |-> wb]

MissingSheetError == <<"Error", <<"Feuille \"Liste de Stock\" introuvable">>>>
DuplicateImportError(exportDate) ==
    <<"Error", <<"Les données pour la date ">> \o exportDate
                   \o <<" ont déjà été importées">>>>
InvalidDateError(dateStr) ==
    <<"Error", <<"Format de date invalide: ">> \o dateStr
                   \o <<". Utilisez DD/MM/YYYY ou YYYY-MM-DD">>>>

BATCH_SIZE == 1000

\* Faulty variant of DateColIndex: only the last header cell is compared.
DateColIndexLastCell(headerRow, exportDate) ==
    IF headerRow # <<>> /\ headerRow[Len(headerRow)] = S(exportDate)
    THEN Len(headerRow) ELSE 0

\* The duplicate-import test: headerRow.eachCell with `cell.value === exportDate`.
DateColIndex(headerRow, exportDate) ==
    IF \E c \in NonEmptyCols(headerRow) : headerRow[c] = S(exportDate)
    THEN CHOOSE c \in NonEmptyCols(headerRow) :
            /\ headerRow[c] = S(exportDate)
            /\ \A d \in NonEmptyCols(headerRow) : headerRow[d] = S(exportDate) => d <= c
    ELSE 0

\* Faulty variant of NewColIndex: the label is written over the last header cell.
NewColIndexOverwrite(headerRow) == Len(headerRow)

\* headerRow.cellCount + 1
NewColIndex(headerRow) == Len(headerRow) + 1

\* `${codif}|${magasin}` of a tracking row: cells 1 and 3.
RowKey(row) == KeyOf(getCellValue(row, 1), getCellValue(row, 3))

\* The eachRow callback on one existing data row.
UpdateExistingRow(row, data, newColIndex) ==
    IF MapHas(data, RowKey(row))
    THEN SetCell(row, newColIndex, N(data[MapIndex(data, RowKey(row))].quantite))
    ELSE SetCell(row, newColIndex, N(0))

\* existingKeys after the eachRow pass.
ExistingKeys(rows) == {RowKey(rows[i]) : i \in 2..Len(rows)}

\* Faulty variant of NewRowsToAdd: every entry of the map yields a new row.
NewRowsToAddUnfiltered(data, existingKeys) == data

\* newRowsToAdd: the entries of the map, in insertion order, whose key no
\* existing row has.
NewRowsToAdd(data, existingKeys) ==
    SelectSeq(data, LAMBDA e : e.key \notin existingKeys)

\* stockSheet.addRow([...]) followed by the new column's value.
AddedRow(item, newColIndex) ==
    SetCell(<<item.codeArticle, item.description, item.emplacement,
              item.descEmplacement>>,
            newColIndex, N(item.quantite))

RECURSIVE AddBatches(_, _, _, _)
\* The batch loop: slices of BATCH_SIZE entries, each entry appended in turn.
AddBatches(rows, newRowsToAdd, i, newColIndex) ==
    IF i >= Len(newRowsToAdd) THEN rows
    ELSE
        LET last == IF i + BATCH_SIZE < Len(newRowsToAdd)
                    THEN i + BATCH_SIZE ELSE Len(newRowsToAdd)
            batch == SubSeq(newRowsToAdd, i + 1, last)
        IN AddBatches(rows \o [k \in 1..Len(batch) |-> AddedRow(batch[k], newColIndex)],
                      newRowsToAdd, i + BATCH_SIZE, newColIndex)

\* The rows of 'Liste de Stock' after the merge (no duplicate, sheet present).
MergedRows(rows, exportSheetArg, exportDate) ==
    LET headerRow == IF rows = <<>> THEN <<>> ELSE rows[1]
        data == extractExportData(exportSheetArg)
        newColIndex == NewColIndex(headerRow)
        withHeader == IF rows = <<>>
                      THEN <<SetCell(headerRow, newColIndex, S(exportDate))>>
                      ELSE [rows EXCEPT ![1] = SetCell(headerRow, newColIndex, S(exportDate))]
        updated == [i \in DOMAIN withHeader |->
                      IF i = 1 THEN withHeader[i]
                      ELSE UpdateExistingRow(withHeader[i], data, newColIndex)]
    IN AddBatches(updated, NewRowsToAdd(data, ExistingKeys(rows)), 0, newColIndex)

\* updateTracking(trackingWb, exportWb, exportDate): the workbook after the
\* merge, or the error thrown with the workbook as it is at the throw.
updateTracking(wb, exportSheetArg, exportDate) ==
    LET s == getWorksheet(wb, StockSheetName)
        headerRow == IF wb[s].rows = <<>> THEN <<>> ELSE wb[s].rows[1]
    IN IF s = 0 THEN Throw(MissingSheetError, wb)
       ELSE IF DateColIndex(headerRow, exportDate) # 0
       THEN Throw(DuplicateImportError(exportDate), wb)
       ELSE Ok([wb EXCEPT ![s].rows = MergedRows(wb[s].rows, exportSheetArg, exportDate)])

----------------------------------------------------------------------------
(* updateMonthlyTracking, updateSemestrialTracking *)

MonthlyThreshold == 1
SemestrialThreshold == 6

MonthlyMessage == <<"Pas de données disponibles pour le mois">>
SemestrialMessage == <<"Pas de données disponibles pour le semestre">>

\* headers[currentIndex - 1] and headers[currentIndex - 6] (0-based in the code).
MonthlyPreviousDate(headers, currentIndex) == headers[(currentIndex - 1) + 1]
SemestrialPreviousDate(headers, currentIndex) == headers[(currentIndex - 6) + 1]

\* Faulty variant of SemestrialPreviousCol: the 0-based index is used as the column.
SemestrialPreviousColOffByOne(currentIndex) == currentIndex - 6

\* The column positions handed to calculateVariations.
CurrentCol(currentIndex) == currentIndex + 1
MonthlyPreviousCol(currentIndex) == currentIndex
SemestrialPreviousCol(currentIndex) == currentIndex - 5

\* `Variation entre le ${previousDate} et le ${exportDate}`
VariationTitle(previousDate, exportDate) ==
    <<"Variation entre le ">> \o StringOf(previousDate) \o <<" et le ">> \o exportDate

\* The report sheet is found by prefix; a sheet found is removed; a new sheet
\* of the fixed name is added.  Yields the outcomes of addWorksheet.
RecreateSheet(wb, prefix, name) ==
    LET found == findSheetByPrefix(wb, prefix)
    IN IF found = 0 THEN addWorksheet(wb, name)
       ELSE addWorksheet(removeWorksheet(wb, found), name)

\* The body of updateMonthlyTracking after the sheet is recreated.
MonthlyContent(sheet, stockSheet, exportDate) ==
    LET headers == getHeaders(stockSheet)
        currentIndex == indexOf(headers, S(exportDate))
    IN IF currentIndex < MonthlyThreshold
       THEN addNoDataMessage(sheet, MonthlyMessage)
       ELSE IF ~isValidDate(MonthlyPreviousDate(headers, currentIndex))
       THEN addNoDataMessage(sheet, MonthlyMessage)
       ELSE writeVariationsSheet(
                sheet,
                calculateVariations(stockSheet, CurrentCol(currentIndex),
                                    MonthlyPreviousCol(currentIndex)),
                VariationTitle(MonthlyPreviousDate(headers, currentIndex), exportDate),
                ReportHeaders)

\* The body of updateSemestrialTracking after the sheet is recreated.
SemestrialContent(sheet, stockSheet, exportDate) ==
    LET headers == getHeaders(stockSheet)
        currentIndex == indexOf(headers, S(exportDate))
    IN IF currentIndex < SemestrialThreshold
       THEN addNoDataMessage(sheet, SemestrialMessage)
       ELSE IF ~isValidDate(SemestrialPreviousDate(headers, currentIndex))
       THEN addNoDataMessage(sheet, SemestrialMessage)
       ELSE writeVariationsSheet(
                sheet,
                calculateVariations(stockSheet, CurrentCol(currentIndex),
                                    SemestrialPreviousCol(currentIndex)),
                VariationTitle(SemestrialPreviousDate(headers, currentIndex), exportDate),
                ReportHeaders)

\* updateMonthlyTracking(workbook, exportDate): the set of its outcomes.
updateMonthlyTracking(wb, exportDate) ==
    LET stockSheet == wb[getWorksheet(wb, StockSheetName)]
    IN {IF r.ok
        THEN Ok([r.wb EXCEPT ![Len(r.wb)] =
                    MonthlyContent(r.wb[Len(r.wb)], stockSheet, exportDate)])
        ELSE r : r \in RecreateSheet(wb, MonthlyPrefix, MonthlyName)}

\* updateSemestrialTracking(workbook, exportDate): the set of its outcomes.
updateSemestrialTracking(wb, exportDate) ==
    LET stockSheet == wb[getWorksheet(wb, StockSheetName)]
    IN {IF r.ok
        THEN Ok([r.wb EXCEPT ![Len(r.wb)] =
                    SemestrialContent(r.wb[Len(r.wb)], stockSheet, exportDate)])
        ELSE r : r \in RecreateSheet(wb, SemestrialPrefix, SemestrialName)}

----------------------------------------------------------------------------
(* Inputs of the tracking pipeline *)

MaxInitCols == 6

CodeA == <<"a">>
CodeABar == <<"a", "|">>
LocB == <<"b">>
LocBarB == <<"|", "b">>
CodeC == <<"c">>
Empty == <<>>

IsoJan15 == <<"2", "0", "2", "4", "-", "0", "1", "-", "1", "5">>
FrJan15 == <<"1", "5", "/", "0", "1", "/", "2", "0", "2", "4">>
IsoFeb30 == <<"2", "0", "2", "4", "-", "0", "2", "-", "3", "0">>
FrMar01 == <<"0", "1", "/", "0", "3", "/", "2", "0", "2", "4">>
BadDate == <<"1", "5", "-", "0", "1", "-", "2", "0", "2", "4">>

\* The date parameters tried: both formats of one day, a day that rolls over
\* into the next month with the rolled-over day in the other format, and a
\* text in neither format.
DateInputs == {IsoJan15, FrJan15, IsoFeb30, FrMar01, BadDate}

ExportRow(code, loc, desc, descLoc) == <<S(code), S(loc), S(<<desc>>), S(<<descLoc>>)>>
ExportHeaderRow == ExportRow(<<"Code article">>, <<"Emplacement">>, "Description", "Desc. emplacement")
ExportSheetOf(dataRows) ==
    [name |-> <<"E", "x", "p", "o", "r", "t">>, fresh |-> FALSE,
     rows |-> <<ExportHeaderRow>> \o dataRows]

\* The exports tried by the pipeline: no data row; a repeated identity, a
\* row without article code and a second identity; two identities whose codes contain the key
\* separator; the same with a plain identity first.
ExportSheets ==
    {ExportSheetOf(<<>>),
     ExportSheetOf(<<ExportRow(CodeA, LocB, "d1", "e1"), ExportRow(CodeA, LocB, "d2", "e2"),
                     ExportRow(Empty, LocB, "d3", "e3"), ExportRow(CodeC, LocB, "d6", "e6")>>),
     ExportSheetOf(<<ExportRow(CodeA, LocBarB, "d4", "e4"), ExportRow(CodeA, LocB, "d1", "e1")>>),
     ExportSheetOf(<<ExportRow(CodeABar, LocB, "d5", "e5"), ExportRow(CodeA, LocBarB, "d4", "e4")>>)}

StandardMeta ==
    <<S(<<"Codification DSNA">>), S(<<"Désignation">>), S(<<"Magasin">>), S(<<"Description">>)>>
\* Metadata headers of which one reads as a date.
DatedMeta4 == [StandardMeta EXCEPT ![4] = S(<<"0", "1", "/", "0", "1", "/", "2", "0", "2", "0">>)]
DatedMeta1 == [StandardMeta EXCEPT ![1] = S(<<"2", "0", "2", "0", "-", "0", "1", "-", "0", "1">>)]

\* Label of the j-th date column of an initial table: the 15th of month j.
InitLabel(j) == formatDate([year |-> 2024, month |-> j - 1, date |-> 15])

TrackRow(code, desig, loc, desc, qtys) == <<S(code), S(<<desig>>), S(loc), S(<<desc>>)>> \o qtys

StockSheet(meta, k, dataRows) ==
    [name |-> StockSheetName, fresh |-> FALSE,
     rows |-> <<meta \o [j \in 1..k |-> S(InitLabel(j))]>> \o dataRows]

OldSheet(name) ==
    [name |-> name, fresh |-> FALSE, rows |-> <<<<S(<<"ancien contenu">>)>>, <<N(1), N(2)>>>>]

MonthlyUpper23 ==
    <<"S", "U", "I", "V", "I", " ", "M", "E", "N", "S", "U", "E", "L", " ", "2", "3">>
SemestrialOld ==
    <<"s", "u", "i", "v", "i", " ", "s", "e", "m", "e", "s", "t", "r", "i", "e", "l", " ", "1">>
NotesName == <<"N", "o", "t", "e", "s">>

\* Report sheets already in the file: none; the two reports; reports under
\* other names; several sheets per prefix.
ReportConfigs ==
    {<<>>,
     <<MonthlyName, SemestrialName>>,
     <<MonthlyUpper23, SemestrialOld>>,
     <<MonthlyUpper23, MonthlyName, SemestrialName>>,
     <<NotesName, MonthlyName, MonthlyUpper23, SemestrialName, SemestrialOld>>}

Reports(names) == [i \in DOMAIN names |-> OldSheet(names[i])]

\* Tables for the merge: zero or one date column, rows whose identities do or
\* do not contain the separator.
MergeTables ==
    {<<StockSheet(StandardMeta, k, rows[k + 1])>> :
        k \in 0..1,
        rows \in {<<<<>>, <<>>>>,
                  <<<<TrackRow(CodeA, "x1", LocB, "y1", <<>>)>>,
                    <<TrackRow(CodeA, "x1", LocB, "y1", <<N(2)>>)>>>>,
                  <<<<TrackRow(CodeABar, "x2", LocB, "y2", <<>>),
                      TrackRow(CodeA, "x1", LocB, "y1", <<>>)>>,
                    <<TrackRow(CodeABar, "x2", LocB, "y2", <<N(0)>>),
                      TrackRow(CodeA, "x1", LocB, "y1", <<N(3)>>)>>>>}}

\* Tables for the lookback: 0..MaxInitCols date columns; one row holds j in
\* its j-th date column, the other appears at the third column.
History1(k) == [j \in 1..k |-> N(j)]
History2(k) == [j \in 1..k |-> IF j < 3 THEN Null ELSE N(10)]
LookbackTables ==
    {<<StockSheet(meta, k, <<TrackRow(CodeA, "x1", LocB, "y1", History1(k)),
                             TrackRow(CodeABar, "x2", LocB, "y2", History2(k))>>)>>
        \o Reports(<<MonthlyName, SemestrialName>>) :
        k \in 0..MaxInitCols, meta \in {StandardMeta, DatedMeta4, DatedMeta1}}

\* Tables for the report sheets.
ReportTables ==
    {<<StockSheet(StandardMeta, 1, <<TrackRow(CodeA, "x1", LocB, "y1", <<N(2)>>)>>)>>
        \o Reports(names) : names \in ReportConfigs}

\* A workbook without 'Liste de Stock'.
NoStockWorkbook == <<OldSheet(NotesName)>>

InitWorkbooks == MergeTables \cup LookbackTables \cup ReportTables \cup {NoStockWorkbook}

NoVr == [pc |-> "off"]
NoHttp == [pc |-> "off"]

----------------------------------------------------------------------------
(* processStockTracking *)

\* What xlsx.readFile yields: everything read predates the job.
Loaded(wb) == [i \in DOMAIN wb |-> [wb[i] EXCEPT !.fresh = FALSE]]

Init ==
    /\ pc = "idle"
    /\ disk \in InitWorkbooks
    /\ trackingWb = <<>>
    /\ exportSheet = ExportSheetOf(<<>>)
    /\ exportDateStr = <<>>
    /\ exportDateFormatted = <<>>
    /\ error = NoError
    /\ writes = 0
    /\ steps = <<>>
    /\ exportData = <<>>
    /\ vr = NoVr
    /\ http = NoHttp

\* A call of processStockTracking(trackingPath, exportPath, exportDateStr).
StartJob ==
    /\ pc \in {"idle", "done", "failed"}
    /\ \E d \in DateInputs, x \in ExportSheets :
        /\ exportDateStr' = d
        /\ exportSheet' = x
    /\ pc' = "start"
    /\ trackingWb' = <<>>
    /\ exportDateFormatted' = <<>>
    /\ error' = NoError
    /\ writes' = 0
    /\ steps' = <<>>
    /\ UNCHANGED <<disk, exportData, vr, http>>

\* parseDate and formatDate.
ParseDateStep ==
    /\ pc = "start"
    /\ IF parseDate(exportDateStr) = ParseError
       THEN /\ pc' = "failed"
            /\ error' = InvalidDateError(exportDateStr)
            /\ UNCHANGED exportDateFormatted
       ELSE /\ pc' = "parsed"
            /\ exportDateFormatted' = formatDate(parseDate(exportDateStr))
            /\ UNCHANGED error
    /\ UNCHANGED <<disk, trackingWb, exportSheet, exportDateStr, writes, steps,
                   exportData, vr, http>>

\* The two xlsx.readFile calls.
ReadFilesStep ==
    /\ pc = "parsed"
    /\ trackingWb' = Loaded(disk)
    /\ pc' = "loaded"
    /\ UNCHANGED <<disk, exportSheet, exportDateStr, exportDateFormatted, error,
                   writes, steps, exportData, vr, http>>

\* A step of the try block: its outcome becomes the workbook, or the error
\* rethrown by the catch.
StepOutcome(r, name, nextPc) ==
    /\ trackingWb' = r.wb
    /\ IF r.ok
       THEN /\ pc' = nextPc
            /\ steps' = Append(steps, name)
            /\ UNCHANGED error
       ELSE /\ pc' = "failed"
            /\ error' = r.error
            /\ UNCHANGED steps
    /\ UNCHANGED <<disk, exportSheet, exportDateStr, exportDateFormatted, writes,
                   exportData, vr, http>>

UpdateTrackingStep ==
    /\ pc = "loaded"
    /\ StepOutcome(updateTracking(trackingWb, exportSheet, exportDateFormatted),
                   "merge", "merged")

UpdateMonthlyStep ==
    /\ pc = "merged"
    /\ \E r \in updateMonthlyTracking(trackingWb, exportDateFormatted) :
        StepOutcome(r, "monthly", "monthly")

UpdateSemestrialStep ==
    /\ pc = "monthly"
    /\ \E r \in updateSemestrialTracking(trackingWb, exportDateFormatted) :
        StepOutcome(r, "semestrial", "semestrial")

\* Faulty variant of WriteFileStep: the file is written as soon as the merge is done.
WriteFileEarly ==
    /\ pc = "merged"
    /\ disk' = Loaded(trackingWb)
    /\ writes' = writes + 1
    /\ steps' = Append(steps, "write")
    /\ pc' = "done"
    /\ UNCHANGED <<trackingWb, exportSheet, exportDateStr, exportDateFormatted,
                   error, exportData, vr, http>>

\* trackingWb.xlsx.writeFile(trackingPath)
WriteFileStep ==
    /\ pc = "semestrial"
    /\ disk' = Loaded(trackingWb)
    /\ writes' = writes + 1
    /\ steps' = Append(steps, "write")
    /\ pc' = "done"
    /\ UNCHANGED <<trackingWb, exportSheet, exportDateStr, exportDateFormatted,
                   error, exportData, vr, http>>

Next ==
    \/ StartJob
    \/ ParseDateStep
    \/ ReadFilesStep
    \/ UpdateTrackingStep
    \/ UpdateMonthlyStep
    \/ UpdateSemestrialStep
    \/ WriteFileStep

Spec == Init /\ [][Next]_vars

----------------------------------------------------------------------------
(* extractExportData on every small export sheet *)

MaxExportRows == 3

SeqsUpTo(n, R) == UNION {[1..m -> R] : m \in 0..n}

\* Rows of an export: the article code is absent, plain, or holds the
\* separator; the location code is empty, plain, or holds the separator.
ExtractRowValues ==
    {<<code, loc, d[1], d[2]>> :
        code \in {Null, S(CodeA), S(CodeABar)},
        loc \in {S(Empty), S(LocB), S(LocBarB)},
        d \in {<<S(<<"d1">>), S(<<"e1">>)>>, <<Null, S(Empty)>>}}

ExtractSheets ==
    {[name |-> <<"E", "x", "p", "o", "r", "t">>, fresh |-> FALSE, rows |-> <<h>> \o rows] :
        h \in {ExportHeaderRow, <<S(CodeA), S(LocB), S(<<"d0">>), S(<<"e0">>)>>},
        rows \in SeqsUpTo(MaxExportRows, ExtractRowValues)}

InitExtract ==
    /\ pc = "extract"
    /\ exportSheet \in ExtractSheets
    /\ exportData = <<>>
    /\ disk = <<>>
    /\ trackingWb = <<>>
    /\ exportDateStr = <<>>
    /\ exportDateFormatted = <<>>
    /\ error = NoError
    /\ writes = 0
    /\ steps = <<>>
    /\ vr = NoVr
    /\ http = NoHttp

ExtractStep ==
    /\ pc = "extract"
    /\ exportData' = extractExportData(exportSheet)
    /\ pc' = "extracted"
    /\ UNCHANGED <<disk, trackingWb, exportSheet, exportDateStr, exportDateFormatted,
                   error, writes, steps, vr, http>>

NextExtract == ExtractStep

SpecExtract == InitExtract /\ [][NextExtract]_vars

----------------------------------------------------------------------------
(* calculateVariations and writeVariationsSheet on every small table *)

MaxVarRows == 2

QtyValues == {Null, N(0), N(3), N(7)}

\* Tables with two date columns (columns 5 and 6); column 7 does not exist.
VarTables ==
    {<<StockSheet(StandardMeta, 2,
                  [i \in DOMAIN q |->
                      TrackRow(IF i = 1 THEN CodeA ELSE CodeABar, "x", LocB, "y", q[i])])>> :
        q \in SeqsUpTo(MaxVarRows, [1..2 -> QtyValues])}

VarCols == 5..7

InitVariations ==
    /\ pc = "off"
    /\ trackingWb \in VarTables
    /\ \E c \in VarCols, p \in VarCols :
        vr = [pc |-> "start", current |-> c, previous |-> p,
              forward |-> <<>>, backward |-> <<>>,
              sheet |-> [name |-> MonthlyName, fresh |-> TRUE, rows |-> <<>>]]
    /\ disk = <<>>
    /\ exportSheet = ExportSheetOf(<<>>)
    /\ exportData = <<>>
    /\ exportDateStr = <<>>
    /\ exportDateFormatted = <<>>
    /\ error = NoError
    /\ writes = 0
    /\ steps = <<>>
    /\ http = NoHttp

\* calculateVariations with the two positions, and with them swapped.
CalculateStep ==
    /\ vr.pc = "start"
    /\ vr' = [vr EXCEPT
                !.pc = "calculated",
                !.forward = calculateVariations(trackingWb[1], vr.current, vr.previous),
                !.backward = calculateVariations(trackingWb[1], vr.previous, vr.current)]
    /\ UNCHANGED <<coreVars, exportData, http>>

\* writeVariationsSheet with the records of calculateVariations.
WriteSheetStep ==
    /\ vr.pc = "calculated"
    /\ vr' = [vr EXCEPT
                !.pc = "written",
                !.sheet = writeVariationsSheet(
                            vr.sheet, vr.forward,
                            VariationTitle(getCellValue(trackingWb[1].rows[1], vr.previous),
                                           StringOf(getCellValue(trackingWb[1].rows[1], vr.current))),
                            ReportHeaders)]
    /\ UNCHANGED <<coreVars, exportData, http>>

NextVariations == CalculateStep \/ WriteSheetStep

SpecVariations == InitVariations /\ [][NextVariations]_vars

----------------------------------------------------------------------------
(* backend/server.js: POST /api/process/:treatmentId *)

\* A field name is a sequence of pieces; "file_" is one piece.
FieldTracking == <<"file_", "tracking">>
FieldExport == <<"file_", "export">>
FieldOther == <<"file_", "other">>
FieldBareTracking == <<"tracking">>

\* req.files as multer's upload.any() leaves it: one entry per uploaded file.
FileLists ==
    {<<>>, <<FieldTracking>>, <<FieldExport>>, <<FieldTracking, FieldExport>>,
     <<FieldExport, FieldTracking, FieldOther>>, <<FieldBareTracking, FieldExport>>,
     <<FieldOther>>}

\* req.body.params: absent, not JSON, without export_date, with an empty
\* export_date, with a date.
ParamTexts == {"undefined", "{oops", "{}", "{\"export_date\":\"\"}",
               "{\"export_date\":\"2024-01-15\"}"}

TreatmentIds == {"stock-tracking", "sales-analysis"}

\* file.path of the i-th uploaded file.
PathOf(i) == <<"uploads", i>>

\* file.fieldname.replace('file_', ''): the first occurrence is removed.
FileIdOf(fieldname) ==
    IF \E i \in DOMAIN fieldname : fieldname[i] = "file_"
    THEN LET k == CHOOSE i \in DOMAIN fieldname :
                    fieldname[i] = "file_" /\ \A j \in 1..(i - 1) : fieldname[j] # "file_"
         IN SubSeq(fieldname, 1, k - 1) \o SubSeq(fieldname, k + 1, Len(fieldname))
    ELSE fieldname

\* fileMap[fileId] after the forEach: the path of the last file of that id,
\* Null (undefined) when there is none.
FileMapAt(files, fileId) ==
    LET hits == {i \in DOMAIN files : FileIdOf(files[i]) = fileId}
    IN IF hits = {} THEN Null
       ELSE PathOf(CHOOSE i \in hits : \A j \in hits : j <= i)

RequiredFiles == <<<<"tracking">>, <<"export">>>>

\* The first required file id missing from fileMap, <<>> when none is.
FirstMissingFile(files) ==
    IF \E k \in DOMAIN RequiredFiles : FileMapAt(files, RequiredFiles[k]) = Null
    THEN RequiredFiles[CHOOSE k \in DOMAIN RequiredFiles :
            /\ FileMapAt(files, RequiredFiles[k]) = Null
            /\ \A j \in 1..(k - 1) : FileMapAt(files, RequiredFiles[j]) # Null]
    ELSE <<>>

\* JSON.parse(req.body.params || '{}'): throws on a text that is not JSON;
\* otherwise export_date is the member's text, Null when there is none.
JsonParse(text) ==
    IF text = "{oops" THEN [ok |-> FALSE, export_date |-> Null]
    ELSE IF text = "{\"export_date\":\"\"}" THEN [ok |-> TRUE, export_date |-> S(<<>>)]
    ELSE IF text = "{\"export_date\":\"2024-01-15\"}" THEN [ok |-> TRUE, export_date |-> S(IsoJan15)]
    ELSE [ok |-> TRUE, export_date |-> Null]

UnsupportedStatus == 400
ErrorStatus == 500
DownloadStatus == 200

\* The handler from its entry to its first await, return or throw.
HandlerEntry(h) ==
    LET params == JsonParse(h.params)
        missing == FirstMissingFile(h.files)
    IN IF ~params.ok
       THEN [h EXCEPT !.pc = "catch", !.thrown = "SyntaxError"]
       ELSE IF ~h.filesDefined
       THEN [h EXCEPT !.pc = "catch", !.thrown = "TypeError"]
       ELSE IF h.treatmentId # "stock-tracking"
       THEN [h EXCEPT !.pc = "responded", !.status = UnsupportedStatus]
       ELSE IF missing # <<>>
       THEN [h EXCEPT !.pc = "catch", !.thrown = "Fichier manquant"]
       ELSE IF Falsy(params.export_date)
       THEN [h EXCEPT !.pc = "catch", !.thrown = "Paramètre manquant: export_date"]
       ELSE [h EXCEPT !.pc = "core", !.coreCalls = @ + 1]

\* cleanupFiles(filePaths): fs.unlink is attempted on each path, errors are
\* swallowed.
cleanupFiles(unlinked, filePaths) == unlinked \cup filePaths

UploadedPaths(h) == {PathOf(i) : i \in DOMAIN h.files}

\* The catch block up to its response: the uploads are cleaned when
\* req.files is set, and the output when outputPath is set.
CatchCleanup(h) ==
    IF h.filesDefined
    THEN [h EXCEPT !.pc = "respond-error",
                   !.unlinked = cleanupFiles(@, UploadedPaths(h))
                                  \cup (IF h.outputPath # Null THEN {h.outputPath} ELSE {})]
    ELSE [h EXCEPT !.pc = "respond-error"]

\* The callback of res.download.
DownloadCallback(h, failed) ==
    [h EXCEPT !.pc = "responded",
              !.unlinked = cleanupFiles(@, UploadedPaths(h) \cup {h.outputPath}),
              !.downloadFailed = failed]

InitServer ==
    /\ \E id \in TreatmentIds, defined \in BOOLEAN, files \in FileLists, text \in ParamTexts :
        /\ defined \/ files = <<>>
        /\ http = [pc |-> "received", treatmentId |-> id, filesDefined |-> defined,
                   files |-> files, params |-> text, status |-> 0, coreCalls |-> 0,
                   coreFailed |-> FALSE, unlinked |-> {}, outputPath |-> Null,
                   thrown |-> "", downloadFailed |-> FALSE]
    /\ pc = "off"
    /\ disk = <<>>
    /\ trackingWb = <<>>
    /\ exportSheet = ExportSheetOf(<<>>)
    /\ exportData = <<>>
    /\ exportDateStr = <<>>
    /\ exportDateFormatted = <<>>
    /\ error = NoError
    /\ writes = 0
    /\ steps = <<>>
    /\ vr = NoVr

Receive ==
    /\ http.pc = "received"
    /\ http' = HandlerEntry(http)
    /\ UNCHANGED <<coreVars, exportData, vr>>

\* `await processStockTracking(...)` resolves with trackingPath and
\* res.download starts the response.
CoreResolves ==
    /\ http.pc = "core"
    /\ http' = [http EXCEPT !.pc = "downloading",
                            !.outputPath = FileMapAt(http.files, <<"tracking">>),
                            !.status = DownloadStatus]
    /\ UNCHANGED <<coreVars, exportData, vr>>

\* `await processStockTracking(...)` rejects.
CoreRejects ==
    /\ http.pc = "core"
    /\ http' = [http EXCEPT !.pc = "catch", !.coreFailed = TRUE, !.thrown = "core"]
    /\ UNCHANGED <<coreVars, exportData, vr>>

Catch ==
    /\ http.pc = "catch"
    /\ http' = CatchCleanup(http)
    /\ UNCHANGED <<coreVars, exportData, vr>>

\* res.status(500).json({detail: error.message})
RespondError ==
    /\ http.pc = "respond-error"
    /\ http' = [http EXCEPT !.pc = "responded", !.status = ErrorStatus]
    /\ UNCHANGED <<coreVars, exportData, vr>>

DownloadDone ==
    /\ http.pc = "downloading"
    /\ \E failed \in BOOLEAN : http' = DownloadCallback(http, failed)
    /\ UNCHANGED <<coreVars, exportData, vr>>

NextServer ==
    \/ Receive
    \/ CoreResolves
    \/ CoreRejects
    \/ Catch
    \/ RespondError
    \/ DownloadDone

SpecServer == InitServer /\ [][NextServer]_vars

----------------------------------------------------------------------------
(* Properties *)

HasStock(wb) == \E i \in DOMAIN wb : wb[i].name = StockSheetName
\* The rows of 'Liste de Stock'.
Stock(wb) == wb[CHOOSE i \in DOMAIN wb : wb[i].name = StockSheetName].rows
HeaderHolds(wb, label) ==
    HasStock(wb) /\ \E c \in DOMAIN Stock(wb)[1] : Stock(wb)[1][c] = S(label)
\* The header cells after the four metadata columns.
DateLabels(wb) ==
    IF HasStock(wb) THEN SubSeq(Stock(wb)[1], 5, Len(Stock(wb)[1])) ELSE <<>>
\* Column of the header cell that holds the label.
ColumnOf(rows, label) == CHOOSE c \in DOMAIN rows[1] : rows[1][c] = S(label)

\* While a job is past the merge and has not written, the file still holds
\* the table the job started from.
AfterMerge == pc \in {"merged", "monthly", "semestrial", "failed"}

\* C1: when the canonical label of the date parameter is already a header
\* cell of 'Liste de Stock', the job fails with the duplicate-import error
\* naming that label, the workbook in memory is the one read from the file,
\* and the file is not written.
C1_DuplicateImportRejected ==
    (AfterMerge /\ HeaderHolds(disk, exportDateFormatted))
        => /\ pc = "failed"
           /\ error = DuplicateImportError(exportDateFormatted)
           /\ trackingWb = disk
           /\ writes = 0

\* C1 witness: the ISO form of a date whose DD/MM/YYYY label is already the
\* second date column has been rejected.
C1_Witness ==
    /\ pc = "failed"
    /\ exportDateStr = IsoJan15
    /\ exportDateFormatted = FrJan15
    /\ error = DuplicateImportError(FrJan15)
    /\ Len(DateLabels(disk)) >= 2
    /\ DateLabels(disk)[2] = S(FrJan15)

\* Number of data rows of the export that carry article code a and location
\* code b.
PairCount(sheet, a, b) ==
    Cardinality({i \in 2..Len(sheet.rows) : sheet.rows[i][1] = a /\ sheet.rows[i][2] = b})

\* C2: after a successful updateTracking every row that existed before
\* holds, in the new column and nowhere else new, the number of export rows of
\* its (article code, location code) pair (0 when there is none) and keeps its
\* earlier cells; every row created holds the number of export rows of its
\* pair in the new column and nothing in the earlier date columns.
C2_MergeValues ==
    pc = "merged" =>
        LET old == Stock(disk)
            new == Stock(trackingWb)
            col == ColumnOf(new, exportDateFormatted)
        IN /\ Len(new) >= Len(old)
           /\ \A i \in 2..Len(old) :
                /\ Len(new[i]) = col
                /\ \A c \in 1..(col - 1) : new[i][c] = getCellValue(old[i], c)
                /\ new[i][col] = N(PairCount(exportSheet, old[i][1], old[i][3]))
           /\ \A i \in (Len(old) + 1)..Len(new) :
                /\ Len(new[i]) = col
                /\ \A c \in 5..(col - 1) : new[i][c] = Null
                /\ PairCount(exportSheet, new[i][1], new[i][3]) > 0
                /\ new[i][col] = N(PairCount(exportSheet, new[i][1], new[i][3]))

IsEmptyCode(v) == v = Null \/ v = S(<<>>)

\* The (article code, location code) pairs of the data rows of the export,
\* both codes non-empty.
ExportPairs(sheet) ==
    {<<sheet.rows[i][1], sheet.rows[i][2]>> :
        i \in {j \in 2..Len(sheet.rows) :
                ~IsEmptyCode(sheet.rows[j][1]) /\ ~IsEmptyCode(sheet.rows[j][2])}}

\* The first data row of the export that carries the pair.
FirstRowOf(sheet, a, b) ==
    sheet.rows[CHOOSE i \in 2..Len(sheet.rows) :
        /\ sheet.rows[i][1] = a /\ sheet.rows[i][2] = b
        /\ \A j \in 2..(i - 1) : ~(sheet.rows[j][1] = a /\ sheet.rows[j][2] = b)]

\* C3: extractExportData returns one bucket per (article code, location
\* code) pair of the data rows, both non-empty, and none else: two rows share
\* a bucket exactly when they carry the same pair; the bucket's quantity is
\* the number of data rows of the pair and its descriptive fields are those of
\* the first such row.
C3_AggregationByCount ==
    pc = "extracted" =>
        /\ Len(exportData) = Cardinality(ExportPairs(exportSheet))
        /\ \A p \in ExportPairs(exportSheet) :
            \E k \in DOMAIN exportData :
                /\ exportData[k].codeArticle = p[1]
                /\ exportData[k].emplacement = p[2]
                /\ exportData[k].quantite = PairCount(exportSheet, p[1], p[2])
                /\ exportData[k].description
                     = (IF FirstRowOf(exportSheet, p[1], p[2])[3] = Null THEN S(<<>>)
                        ELSE FirstRowOf(exportSheet, p[1], p[2])[3])
                /\ exportData[k].descEmplacement = FirstRowOf(exportSheet, p[1], p[2])[4]

\* C4: the date labels of the stored table are pairwise distinct, a
\* successful job appends exactly its label at the end of the header, and any
\* other step leaves the header as it was.
C4_HeaderAppendOnly ==
    /\ [](\A i, j \in DOMAIN DateLabels(disk) :
            DateLabels(disk)[i] = DateLabels(disk)[j] => i = j)
    /\ [][IF pc' = "done" /\ pc # "done"
          THEN DateLabels(disk') = Append(DateLabels(disk), S(exportDateFormatted))
          ELSE DateLabels(disk') = DateLabels(disk)]_vars

\* C4 witness: after two merges, given in one format each, the rolled-over
\* date is refused in its other format and the header holds the two labels.
C4_Witness ==
    /\ pc = "failed"
    /\ exportDateStr = IsoFeb30
    /\ error = DuplicateImportError(FrMar01)
    /\ DateLabels(disk) = <<S(FrJan15), S(FrMar01)>>

\* A cell read as a quantity: an absent or unset cell is 0.
Qty(row, c) == IF c \in DOMAIN row /\ IsNum(row[c]) THEN row[c][2] ELSE 0

\* The data rows whose quantity differs between the two columns.
ChangedRows(rows, cur, prev) ==
    {i \in 2..Len(rows) : Qty(rows[i], cur) - Qty(rows[i], prev) # 0}

\* The k-th smallest element of a set of row numbers.
NthOf(set, k) == CHOOSE i \in set : Cardinality({j \in set : j < i}) = k - 1

\* One record per changed row, in row order.
ExpectedRecords(rows, cur, prev) ==
    [k \in 1..Cardinality(ChangedRows(rows, cur, prev)) |->
        LET row == rows[NthOf(ChangedRows(rows, cur, prev), k)]
        IN [codif |-> row[1], designation |-> row[2], magasin |-> row[3],
            description |-> row[4],
            variation |-> N(Qty(row, cur) - Qty(row, prev)),
            qtyActuelle |-> N(Qty(row, cur))]]

RecordCells(r) ==
    <<r.codif, r.designation, r.magasin, r.description, r.variation, r.qtyActuelle>>

\* Rows 3.. of a report written from these records.
ExpectedDataRows(records) ==
    IF records = <<>> THEN <<<<S(NoVariationMessage)>>>>
    ELSE [k \in DOMAIN records |-> RecordCells(records[k])]

\* C5: calculateVariations returns one record per data row whose current
\* quantity minus previous quantity is not 0, in row order, with that
\* difference and the current quantity; no record has variation 0, in the
\* result or in the rows written to the sheet; with the positions swapped the
\* same rows are returned with every variation negated.
C5_Variations ==
    vr.pc \in {"calculated", "written"} =>
        LET rows == trackingWb[1].rows
        IN /\ vr.forward = ExpectedRecords(rows, vr.current, vr.previous)
           /\ \A k \in DOMAIN vr.forward : vr.forward[k].variation # N(0)
           /\ Len(vr.backward) = Len(vr.forward)
           /\ \A k \in DOMAIN vr.forward :
                /\ vr.backward[k].codif = vr.forward[k].codif
                /\ vr.backward[k].variation = N(0 - vr.forward[k].variation[2])
           /\ vr.pc = "written" =>
                /\ Len(vr.sheet.rows) >= 3
                /\ SubSeq(vr.sheet.rows, 3, Len(vr.sheet.rows)) = ExpectedDataRows(vr.forward)
                /\ \A i \in 3..Len(vr.sheet.rows) :
                    Len(vr.sheet.rows[i]) = 6 => vr.sheet.rows[i][5] # N(0)

\* C5 witness: of two rows, the one holding 7 in both columns is left out and
\* the other, 3 against 7, is reported as -4 (and as 4 with the positions
\* swapped), and the report is written.
C5_Witness ==
    /\ vr.pc = "written"
    /\ vr.current = 6 /\ vr.previous = 5
    /\ Len(trackingWb[1].rows) = 3
    /\ trackingWb[1].rows[2][5] = N(7) /\ trackingWb[1].rows[2][6] = N(7)
    /\ Len(vr.forward) = 1
    /\ vr.forward[1].variation = N(-4)
    /\ vr.backward[1].variation = N(4)
    /\ Len(vr.sheet.rows) = 3

HasFresh(wb, name) == \E i \in DOMAIN wb : wb[i].name = name /\ wb[i].fresh
\* The sheet of that name created by the running job.
FreshSheet(wb, name) == wb[CHOOSE i \in DOMAIN wb : wb[i].name = name /\ wb[i].fresh]

MonthlyWritten == pc \in {"monthly", "semestrial", "done"}
SemestrialWritten == pc \in {"semestrial", "done"}

\* A report that compares the column of the label with the date column n
\* positions before it: it is populated when that column exists and its
\* header is a date, its title names that header as previous, and its data
\* rows are the differences between these two columns.
ReportCompares(sheet, rows, label, n) ==
    LET cur == ColumnOf(rows, label)
        prev == cur - n
    IN prev >= 5 =>
        /\ isValidDate(rows[1][prev]) => Len(sheet.rows) >= 2
        /\ Len(sheet.rows) >= 2 =>
            /\ sheet.rows[1] = <<S(<<"Variation entre le ">> \o rows[1][prev][2]
                                      \o <<" et le ">> \o label)>>
            /\ SubSeq(sheet.rows, 3, Len(sheet.rows))
                 = ExpectedDataRows(ExpectedRecords(rows, cur, prev))

\* C6: when the lookback is available the monthly report compares the
\* column just merged with the date column 1 position before it and the
\* semestrial report with the one 6 positions before it; the previous
\* quantities are those of the column whose header the title shows as previous.
C6_LookbackColumns ==
    /\ MonthlyWritten =>
        ReportCompares(FreshSheet(trackingWb, MonthlyName), Stock(trackingWb),
                       exportDateFormatted, 1)
    /\ SemestrialWritten =>
        ReportCompares(FreshSheet(trackingWb, SemestrialName), Stock(trackingWb),
                       exportDateFormatted, 6)

\* C6 witness: with 7 date columns the semestrial report names the 1st as
\* previous and the monthly report the 6th, and the row that held 1 in the
\* 1st column and holds 2 in the 7th is reported with variation 1.
C6_Witness ==
    /\ pc = "semestrial"
    /\ Len(DateLabels(trackingWb)) = 7
    /\ FreshSheet(trackingWb, SemestrialName).rows[1]
         = <<S(<<"Variation entre le ">> \o InitLabel(1) \o <<" et le ">> \o FrMar01)>>
    /\ FreshSheet(trackingWb, MonthlyName).rows[1]
         = <<S(<<"Variation entre le ">> \o InitLabel(6) \o <<" et le ">> \o FrMar01)>>
    /\ FreshSheet(trackingWb, SemestrialName).rows[3][5] = N(1)
    /\ FreshSheet(trackingWb, MonthlyName).rows[3][5] = N(-4)

\* Position of the merged column, 0 for the first date column.
MergedPosition == ColumnOf(Stock(trackingWb), exportDateFormatted) - 5

\* C7: the monthly report holds only its no-data message whenever the merged
\* column is at position P < 1, and the semestrial report whenever P < 6,
\* whatever the table contains.
C7_NoDataBelowThreshold ==
    /\ (MonthlyWritten /\ MergedPosition < 1) =>
        FreshSheet(trackingWb, MonthlyName).rows = <<<<S(MonthlyMessage)>>>>
    /\ (SemestrialWritten /\ MergedPosition < 6) =>
        FreshSheet(trackingWb, SemestrialName).rows = <<<<S(SemestrialMessage)>>>>

\* C8: the file is written at most once per job, and only when the merge,
\* the monthly report and the semestrial report have completed in that order
\* without error; a failed job surfaces an error and writes nothing.
C8_WriteLast ==
    /\ [](/\ writes <= 1
          /\ writes = 1 => (pc = "done" /\ steps = <<"merge", "monthly", "semestrial", "write">>)
          /\ pc = "done" => (writes = 1 /\ error = NoError)
          /\ pc = "failed" => (writes = 0 /\ error # NoError)
          /\ error # NoError => pc = "failed")
    /\ [][disk' # disk =>
            /\ steps = <<"merge", "monthly", "semestrial">>
            /\ error = NoError
            /\ writes = 0
            /\ pc' = "done"]_vars

\* C8 witness: a job whose merge completed fails in the monthly step; the
\* error is surfaced and nothing is written.
C8_Witness ==
    /\ pc = "failed"
    /\ steps = <<"merge">>
    /\ error = NameExistsError(MonthlyName)
    /\ HeaderHolds(trackingWb, exportDateFormatted)
    /\ ~HeaderHolds(disk, exportDateFormatted)
    /\ writes = 0

\* C9: after updateMonthlyTracking every sheet whose name starts with
\* 'suivi mensuel', whatever the case, was created by this job, and after
\* updateSemestrialTracking every sheet whose name starts with
\* 'suivi semestriel'.
C9_NoStaleReportSheet ==
    /\ MonthlyWritten =>
        \A i \in DOMAIN trackingWb :
            startsWith(toLowerCase(trackingWb[i].name), MonthlyPrefix) => trackingWb[i].fresh
    /\ SemestrialWritten =>
        \A i \in DOMAIN trackingWb :
            startsWith(toLowerCase(trackingWb[i].name), SemestrialPrefix) => trackingWb[i].fresh

Uploaded(h, id) ==
    h.filesDefined /\ \E i \in DOMAIN h.files : h.files[i] \in {<<"file_", id>>, <<id>>}
FileMissing(h) == ~Uploaded(h, "tracking") \/ ~Uploaded(h, "export")
ParamMissing(h) == h.params \in {"undefined", "{}", "{\"export_date\":\"\"}"}

\* C10: the response is a client error (4xx) when the treatment identifier
\* is not 'stock-tracking', when the tracking or the export file is missing
\* and when export_date is missing; it is a server error (5xx) only when the
\* core processing failed; and the core is not called when a file or the
\* parameter is missing.
C10_ClientErrors ==
    http.pc = "responded" =>
        /\ (http.treatmentId # "stock-tracking" \/ FileMissing(http) \/ ParamMissing(http))
             => http.status \in 400..499
        /\ http.status >= 500 => http.coreFailed
        /\ (FileMissing(http) \/ ParamMissing(http)) => http.coreCalls = 0

\* C11: when the request is finished, whatever the outcome (unsupported
\* treatment identifier, malformed params, missing file, missing parameter,
\* core failure, successful or failed download), a deletion has been
\* attempted for every uploaded file of the request and for the output file
\* when one was produced.
C11_CleanupOnEveryPath ==
    http.pc = "responded" =>
        /\ UploadedPaths(http) \subseteq http.unlinked
        /\ http.outputPath # Null => http.outputPath \in http.unlinked

\* The (article code, location code) pair of a tracking row: cells 1 and 3.
PairOf(row) == <<getCellValue(row, 1), getCellValue(row, 3)>>
PairsDistinct(rows) ==
    \A i, j \in 2..Len(rows) : i # j => PairOf(rows[i]) # PairOf(rows[j])

\* C12: from a table whose data rows carry pairwise distinct (article code,
\* location code) pairs, every table written by a sequence of merges, and
\* every table a merge produces in memory, has pairwise distinct pairs; a
\* merge keeps every existing row at its position with its earlier cells,
\* and each row it creates carries a pair that no existing row and no other
\* created row carries.
C12_RowIdentityUnique ==
    /\ HasStock(disk) => PairsDistinct(Stock(disk))
    /\ pc \in {"merged", "monthly", "semestrial"} =>
        LET old == Stock(disk)
            new == Stock(trackingWb)
        IN /\ PairsDistinct(new)
           /\ Len(new) >= Len(old)
           /\ \A i \in 2..Len(old) :
                \A c \in 1..Len(old[1]) : getCellValue(new[i], c) = getCellValue(old[i], c)
           /\ \A i \in (Len(old) + 1)..Len(new) :
                /\ \A j \in 2..Len(old) : PairOf(new[i]) # PairOf(old[j])
                /\ \A j \in (Len(old) + 1)..Len(new) :
                     i # j => PairOf(new[i]) # PairOf(new[j])

\* C12 witness: a merge on a table that already has two data rows and a date
\* column has created a row, while the export also carried the pair of an
\* existing row, for which no row was created.
C12_Witness ==
    /\ pc = "merged"
    /\ Len(Stock(disk)) >= 3
    /\ Len(DateLabels(disk)) >= 1
    /\ Len(Stock(trackingWb)) > Len(Stock(disk))
    /\ \E i \in 2..Len(Stock(disk)) :
         PairCount(exportSheet, Stock(disk)[i][1], Stock(disk)[i][3]) > 0

====
